---- MODULE Spec2Model ----
(***************************************************************************)
(* ACER (baselines/acer/acer_simple.py): the rollout runner with frame     *)
(* stacking, the Retrace target recursion, model set-up, the training step *)
(* with its Polyak average, the learn loop and save/load.                  *)
(*                                                                         *)
(* Tensors are modelled without their height and width axes: every         *)
(* operation of the runner is uniform over them.  Floating point values    *)
(* are modelled by integers.                                               *)
(***************************************************************************)
EXTENDS Integers, Sequences, FiniteSets, TLC

VARIABLES
    \* ---- _Runner ----
    obs,          \* self.obs: the rolling stack, [env][channel]
    dones,        \* self.dones: the done flags of the last environment step
    env_t,        \* the environment's clock (modulo MaxPixel)
    rpc,          \* position of the runner: "idle", "loop", "returned"
    enc_obs, mb_obs, mb_actions, mb_mus, mb_dones, mb_rewards,   \* locals of run()
    env_log,      \* history: what env.step returned at each step of this run()
    ret,          \* the tuple the call of run() returns (empty until it returns)
    hist,         \* history: the calls of env.reset(), and the end of the previous run()
    \* ---- q_retrace ----
    q_n,          \* the argument n_steps
    rewards, q_dones, q_i, values, rho_i,    \* the argument batches, flat
    i,            \* the loop index
    qret, qrets,  \* locals of q_retrace
    qpc,          \* "loop", "done"
    q_out,        \* the returned batch
    \* ---- ACER ----
    model,        \* the ACER object: hyperparameters, run_ops, names_ops, parameters
    lpc,          \* position of learn()
    total_timesteps,   \* the argument of learn()
    steps,        \* the loop variable of learn()
    buffer,       \* the replay buffer of learn() (exists = FALSE for None)
    samples_number,    \* the number drawn for the off-policy steps
    replays,      \* the off-policy iterations done of the inner loop
    executed,     \* the operations sess.run has executed in this training step
    kind,         \* the batch of the training step: "on", "off" or "none"
    prev,         \* history: the parameters when the training step began
    train_ret,    \* what _train_step returned last
    events,       \* history: the events of this outer iteration
    calls,        \* history: what this learn() has called so far
    saved,        \* the file written by save(): data and params
    loaded        \* the model load() returns

runner_vars == <<obs, dones, env_t, rpc, enc_obs, mb_obs, mb_actions, mb_mus,
                 mb_dones, mb_rewards, env_log, ret, hist>>

retrace_vars == <<q_n, rewards, q_dones, q_i, values, rho_i, i, qret, qrets, qpc, q_out>>

acer_vars == <<model, lpc, total_timesteps, steps, buffer, samples_number, replays,
               executed, kind, prev, train_ret, events, calls>>

persist_vars == <<saved, loaded>>

vars == <<runner_vars, retrace_vars, acer_vars, persist_vars>>

----------------------------------------------------------------------------
\* Sizes of the model.
n_envs == 2          \* env.num_envs
n_steps == 2         \* ACER.n_steps
nstack == 2          \* ACER.nstack
num_channels == 2    \* env.observation_space.shape[2]
n_act == 2           \* env.action_space.n
MaxPixel == 2        \* pixel values of a raw frame are 1..MaxPixel
gamma == 2           \* ACER.gamma, as an integer
MaxRho == 2          \* importance weights are 0..MaxRho
n_params == 2        \* len(self.params)
MaxIters == 2        \* learn() is called with at most MaxIters * n_batch timesteps
MaxPoisson == 1      \* np.random.poisson draws 0..MaxPoisson

Envs == 1..n_envs
StackLen == num_channels * nstack

Max(a, b) == IF a >= b THEN a ELSE b
Min(a, b) == IF a <= b THEN a ELSE b

None == <<>>
Some(x) == <<x>>

----------------------------------------------------------------------------
\* The vectorised environment and the policy: collaborators of the runner.

\* The raw frame (num_channels values) environment e shows at clock t.
Frame(e, t) == [c \in 1..num_channels |-> 1 + ((t + e + c) % MaxPixel)]

\* env.reset(): one raw frame per environment.
env_reset == [e \in Envs |-> Frame(e, 0)]

\* The reward of env.step(actions) at clock t: 1 for the matching action.
env_reward(e, t, a) == IF a = (t + e) % n_act THEN 1 ELSE 0

\* model.step(obs, state, mask): an action and a probability vector per environment.
model_step(o) ==
    LET act == [e \in Envs |-> o[e][StackLen] % n_act]
    IN  [actions |-> act,
         mus |-> [e \in Envs |-> [a \in 1..n_act |-> IF a - 1 = act[e] THEN 1 ELSE 0]]]

----------------------------------------------------------------------------
\* _Runner

\* np.roll(x, shift=-k) on the channel axis: element j comes from j + k, cyclically.
np_roll(x, k) == [j \in 1..Len(x) |-> x[((j - 1 + k) % Len(x)) + 1]]

\* update_obs without the multiplication by (1 - dones): a stack that is never cleared.
update_obs_noclear(o, raw, given, d) ==
    [e \in Envs |->
        [j \in 1..StackLen |->
            IF j > StackLen - num_channels
            THEN raw[e][j - (StackLen - num_channels)]
            ELSE np_roll(o[e], num_channels)[j]]]

\* _Runner.update_obs(obs, dones): given is FALSE for dones=None.
update_obs(o, raw, given, d) ==
    LET masked == [e \in Envs |->
                      [j \in 1..StackLen |->
                          IF given THEN o[e][j] * (IF d[e] THEN 0 ELSE 1) ELSE o[e][j]]]
        rolled == [e \in Envs |-> np_roll(masked[e], num_channels)]
    IN  [e \in Envs |->
            [j \in 1..StackLen |->
                IF j > StackLen - num_channels
                THEN raw[e][j - (StackLen - num_channels)]
                ELSE rolled[e][j]]]

\* A split that lists the newest group first.
np_split_newest_first(o) ==
    [k \in 1..nstack |->
        [e \in Envs |-> SubSeq(o[e], (nstack - k) * num_channels + 1,
                                     (nstack - k + 1) * num_channels)]]

\* np.split(self.obs, nstack, axis=3): nstack arrays of num_channels channels each.
np_split(o) ==
    [k \in 1..nstack |->
        [e \in Envs |-> SubSeq(o[e], (k - 1) * num_channels + 1, k * num_channels)]]

\* np.asarray(list).swapaxes(1, 0): [time][env] becomes [env][time].
swapaxes(l) == [e \in Envs |-> [t \in 1..Len(l) |-> l[t][e]]]

\* A slice that keeps the whole array.
dones_slice_none(m) == m

\* A slice that keeps the first n_steps entries.
dones_slice_first(m) == [e \in Envs |-> SubSeq(m[e], 1, Len(m[e]) - 1)]

\* mb_dones[:, 1:]
dones_slice(m) == [e \in Envs |-> Tail(m[e])]

NoDones == [e \in Envs |-> FALSE]
EmptyBatch == [e \in Envs |-> <<>>]
EmptyRet == [enc_obs |-> EmptyBatch, obs |-> EmptyBatch, actions |-> EmptyBatch,
             rewards |-> EmptyBatch, mus |-> EmptyBatch, dones |-> EmptyBatch,
             masks |-> EmptyBatch]

\* The last stacked observation and mask of a returned segment.
segment_end(r) ==
    [obs |-> [e \in Envs |-> r.obs[e][Len(r.obs[e])]],
     masks |-> [e \in Envs |-> r.masks[e][Len(r.masks[e])]]]

\* _Runner.__init__ (and AbstractEnvRunner.__init__, which sets self.dones).
runner_init ==
    /\ obs = update_obs([e \in Envs |-> [j \in 1..StackLen |-> 0]], env_reset, FALSE, NoDones)
    /\ dones = NoDones
    /\ env_t = 0
    /\ rpc = "idle"
    /\ enc_obs = <<>> /\ mb_obs = <<>> /\ mb_actions = <<>> /\ mb_mus = <<>>
    /\ mb_dones = <<>> /\ mb_rewards = <<>>
    /\ env_log = <<>>
    /\ ret = EmptyRet
    /\ hist = [resets |-> 1, last |-> None]

\* A run() that begins by resetting the environment.
run_begin_reset ==
    /\ rpc \in {"idle", "returned"}
    /\ rpc' = "loop"
    /\ obs' = update_obs(obs, env_reset, FALSE, NoDones)
    /\ env_t' = 0
    /\ enc_obs' = np_split(obs')
    /\ mb_obs' = <<>> /\ mb_actions' = <<>> /\ mb_mus' = <<>>
    /\ mb_dones' = <<>> /\ mb_rewards' = <<>>
    /\ env_log' = <<>>
    /\ ret' = EmptyRet
    /\ hist' = [resets |-> hist.resets + 1,
                last |-> IF rpc = "returned" THEN Some(segment_end(ret)) ELSE None]
    /\ UNCHANGED dones

\* run(), up to the loop.
run_begin ==
    /\ rpc \in {"idle", "returned"}
    /\ rpc' = "loop"
    /\ enc_obs' = np_split(obs)
    /\ mb_obs' = <<>> /\ mb_actions' = <<>> /\ mb_mus' = <<>>
    /\ mb_dones' = <<>> /\ mb_rewards' = <<>>
    /\ env_log' = <<>>
    /\ ret' = EmptyRet
    /\ hist' = [hist EXCEPT !.last = IF rpc = "returned" THEN Some(segment_end(ret)) ELSE None]
    /\ UNCHANGED <<obs, dones, env_t>>

\* An iteration that records the done flags after the environment's step
\* instead of the ones given to the model.
run_step_late_mask ==
    /\ rpc = "loop"
    /\ Len(mb_obs) < n_steps
    /\ \E d \in [Envs -> BOOLEAN] :
          LET out == model_step(obs)
              t1 == (env_t + 1) % MaxPixel
              raw == [e \in Envs |-> Frame(e, t1)]
              rew == [e \in Envs |-> env_reward(e, t1, out.actions[e])]
          IN  /\ mb_obs' = Append(mb_obs, obs)
              /\ mb_actions' = Append(mb_actions, out.actions)
              /\ mb_mus' = Append(mb_mus, out.mus)
              /\ env_t' = t1
              /\ dones' = d
              /\ mb_dones' = Append(mb_dones, d)
              /\ obs' = update_obs(obs, raw, TRUE, d)
              /\ mb_rewards' = Append(mb_rewards, rew)
              /\ enc_obs' = Append(enc_obs, raw)
              /\ env_log' = Append(env_log, [mask |-> dones, actions |-> out.actions,
                                              obs |-> raw, rewards |-> rew, dones |-> d])
    /\ UNCHANGED <<rpc, ret, hist>>

\* One iteration of the loop of run(): the model's step with self.dones as the
\* mask, then the environment's step.
run_step ==
    /\ rpc = "loop"
    /\ Len(mb_obs) < n_steps
    /\ \E d \in [Envs -> BOOLEAN] :
          LET out == model_step(obs)
              t1 == (env_t + 1) % MaxPixel
              raw == [e \in Envs |-> Frame(e, t1)]
              rew == [e \in Envs |-> env_reward(e, t1, out.actions[e])]
          IN  /\ mb_obs' = Append(mb_obs, obs)
              /\ mb_actions' = Append(mb_actions, out.actions)
              /\ mb_mus' = Append(mb_mus, out.mus)
              /\ mb_dones' = Append(mb_dones, dones)
              /\ env_t' = t1
              /\ dones' = d
              /\ obs' = update_obs(obs, raw, TRUE, d)
              /\ mb_rewards' = Append(mb_rewards, rew)
              /\ enc_obs' = Append(enc_obs, raw)
              /\ env_log' = Append(env_log, [mask |-> dones, actions |-> out.actions,
                                              obs |-> raw, rewards |-> rew, dones |-> d])
    /\ UNCHANGED <<rpc, ret, hist>>

\* run(), after the loop.
run_end ==
    /\ rpc = "loop"
    /\ Len(mb_obs) = n_steps
    /\ mb_obs' = Append(mb_obs, obs)
    /\ mb_dones' = Append(mb_dones, dones)
    /\ ret' = [enc_obs |-> swapaxes(enc_obs),
               obs |-> swapaxes(mb_obs'),
               actions |-> swapaxes(mb_actions),
               rewards |-> swapaxes(mb_rewards),
               mus |-> swapaxes(mb_mus),
               dones |-> dones_slice(swapaxes(mb_dones')),
               masks |-> swapaxes(mb_dones')]
    /\ rpc' = "returned"
    /\ UNCHANGED <<obs, dones, env_t, enc_obs, mb_actions, mb_mus, mb_rewards, env_log, hist>>

----------------------------------------------------------------------------
\* q_retrace

\* batch_to_seq(x, n_envs, n, flat=True): a list of n vectors of shape [n_envs];
\* the batch is laid out environment by environment.
batch_to_seq(x, n) == [t \in 1..n |-> [e \in Envs |-> x[(e - 1) * n + t]]]

\* seq_to_batch(l, flat=True): the inverse layout.
seq_to_batch(l) ==
    [k \in 1..(n_envs * Len(l)) |-> l[((k - 1) % Len(l)) + 1][((k - 1) \div Len(l)) + 1]]

\* The importance weights used raw, without truncation.
rho_bar_raw(rho) == [k \in 1..Len(rho) |-> rho[k]]

\* tf.minimum(1.0, rho_i)
rho_bar(rho) == [k \in 1..Len(rho) |-> Min(1, rho[k])]

\* qrets[::-1]
reversed(l) == [k \in 1..Len(l) |-> l[Len(l) + 1 - k]]

\* The batches q_retrace is called with: one environment's trajectory is drawn,
\* the other environments follow a fixed one.
RetraceInputs ==
    { [n |-> n, e0 |-> e0, r |-> r, d |-> d, rho |-> rho] :
        n \in 1..n_steps, e0 \in Envs,
        r \in [1..n_steps -> 0..1], d \in [1..n_steps -> 0..1],
        rho \in [1..n_steps -> 0..MaxRho] }

\* q_retrace, up to the loop.
retrace_init ==
    \E inp \in {x \in RetraceInputs :
                  \A t \in (x.n + 1)..n_steps : x.r[t] = 0 /\ x.d[t] = 0 /\ x.rho[t] = 0} :
        LET n == inp.n
            cell(k, len) == [e |-> ((k - 1) \div len) + 1, t |-> ((k - 1) % len) + 1]
        IN  /\ q_n = n
            /\ rewards = [k \in 1..(n_envs * n) |->
                             IF cell(k, n).e = inp.e0 THEN inp.r[cell(k, n).t] ELSE 1]
            /\ q_dones = [k \in 1..(n_envs * n) |->
                             IF cell(k, n).e = inp.e0 THEN inp.d[cell(k, n).t] ELSE 0]
            /\ rho_i = [k \in 1..(n_envs * n) |->
                           IF cell(k, n).e = inp.e0 THEN inp.rho[cell(k, n).t] ELSE 1]
            /\ q_i = [k \in 1..(n_envs * n) |-> cell(k, n).e + cell(k, n).t]
            /\ values = [k \in 1..(n_envs * (n + 1)) |->
                            2 * cell(k, n + 1).t + cell(k, n + 1).e]
            /\ qret = batch_to_seq(values, n + 1)[n + 1]
            /\ qrets = <<>>
            /\ i = n - 1
            /\ qpc = "loop"
            /\ q_out = <<>>

\* One iteration of the loop of q_retrace (i counts from n_steps - 1 down to 0).
retrace_step ==
    /\ qpc = "loop"
    /\ i >= 0
    /\ LET rb == batch_to_seq(rho_bar(rho_i), q_n)
           reward_seq == batch_to_seq(rewards, q_n)
           done_seq == batch_to_seq(q_dones, q_n)
           q_is == batch_to_seq(q_i, q_n)
           value_sequence == batch_to_seq(values, q_n + 1)
           q1 == [e \in Envs |-> reward_seq[i + 1][e] + gamma * qret[e] * (1 - done_seq[i + 1][e])]
       IN  /\ qrets' = Append(qrets, q1)
           /\ qret' = [e \in Envs |-> (rb[i + 1][e] * (q1[e] - q_is[i + 1][e])) + value_sequence[i + 1][e]]
    /\ i' = i - 1
    /\ UNCHANGED <<q_n, rewards, q_dones, q_i, values, rho_i, qpc, q_out>>

\* q_retrace, after the loop.
retrace_end ==
    /\ qpc = "loop"
    /\ i < 0
    /\ q_out' = seq_to_batch(reversed(qrets))
    /\ qpc' = "done"
    /\ UNCHANGED <<q_n, rewards, q_dones, q_i, values, rho_i, i, qret, qrets>>

----------------------------------------------------------------------------
\* ACER: construction and setup_model

n_batch == n_envs * n_steps

\* The hyperparameters of ACER.__init__.
HyperNames ==
    {"gamma", "n_steps", "nstack", "num_procs", "q_coef", "ent_coef", "max_grad_norm",
     "learning_rate", "lr_schedule", "rprop_alpha", "rprop_epsilon", "buffer_size",
     "replay_ratio", "replay_start", "correction_term", "trust_region", "alpha", "delta",
     "verbose"}

\* The attributes a model takes from its policy argument and its environment.
EnvAttrs == {"policy", "observation_space", "action_space", "n_envs"}

\* What BaseRLModel and ACER.__init__ set them to, given the policy and the environment.
env_attr(a, policy, has_env) ==
    CASE a = "policy" -> policy
      [] a = "observation_space" -> IF has_env THEN "Box" ELSE "None"
      [] a = "action_space" -> IF has_env THEN "Discrete" ELSE "None"
      [] a = "n_envs" -> IF has_env THEN n_envs ELSE 0

\* Their defaults (fractions in hundredths, learning_rate in 1e-4, rprop_epsilon in 1e-5).
Default(h) ==
    CASE h = "gamma" -> 99 [] h = "n_steps" -> 20 [] h = "nstack" -> 4
      [] h = "num_procs" -> 1 [] h = "q_coef" -> 50 [] h = "ent_coef" -> 1
      [] h = "max_grad_norm" -> Some(10) [] h = "learning_rate" -> 7
      [] h = "lr_schedule" -> "linear" [] h = "rprop_alpha" -> 99
      [] h = "rprop_epsilon" -> 1 [] h = "buffer_size" -> 5000
      [] h = "replay_ratio" -> 4 [] h = "replay_start" -> 1000
      [] h = "correction_term" -> 10 [] h = "trust_region" -> TRUE
      [] h = "alpha" -> 99 [] h = "delta" -> 1 [] h = "verbose" -> 0

\* ACER.__init__(policy, env, ..., _init_setup_model=False) with the hyperparameters
\* hyper: the attributes of the new object.
acer_init(hyper, policy, has_env) ==
    [hp |-> [a \in HyperNames \cup EnvAttrs |->
                IF a \in HyperNames THEN hyper[a] ELSE env_attr(a, policy, has_env)],
     sess |-> FALSE, run_ops |-> None, names_ops |-> None,
     params |-> <<>>, polyak |-> <<>>, st |-> "new"]

base_names ==
    <<"loss", "loss_q", "entropy", "loss_policy", "loss_f", "loss_bc", "explained_variance",
      "norm_grads">>

trust_region_names ==
    <<"norm_grads_q", "norm_grads_policy", "avg_norm_grads_f", "avg_norm_k", "avg_norm_g",
      "avg_norm_k_dot_g", "avg_norm_adj">>

no_model == acer_init([h \in HyperNames |-> Default(h)], "None", FALSE)

\* The initial value of the parameters (tf.global_variables_initializer).
initial_params == [p \in 1..n_params |-> 100 * p]

\* ACER.setup_model: the assertion on norm_grads, then run_ops and names_ops (set
\* only under trust_region), then the initial parameters and their averages.
setup_model(m) ==
    IF m.hp["max_grad_norm"] = None
    THEN [m EXCEPT !.sess = TRUE, !.st = "AssertionError"]
    ELSE [m EXCEPT !.sess = TRUE,
                   !.run_ops = IF m.hp["trust_region"]
                               THEN <<"_train">> \o base_names \o trust_region_names
                               ELSE None,
                   !.names_ops = IF m.hp["trust_region"]
                                 THEN base_names \o trust_region_names
                                 ELSE None,
                   !.params = initial_params,
                   !.polyak = initial_params,
                   !.st = "ready"]

----------------------------------------------------------------------------
\* ACER._train_step: one sess.run of run_ops

ISqrt(x) == CHOOSE r \in 0..x : r * r <= x /\ (r + 1) * (r + 1) > x

RECURSIVE SumSquares(_, _)
SumSquares(g, k) == IF k = 0 THEN 0 ELSE g[k] * g[k] + SumSquares(g, k - 1)

\* tf.gradients(..., self.params): the gradient of the batch's loss.
gradients == [p \in 1..n_params |-> 3 * p]

\* tf.clip_by_global_norm(grads, max_grad_norm)
clip_by_global_norm(g, clip_norm) ==
    LET norm == ISqrt(SumSquares(g, Len(g)))
    IN  [p \in 1..Len(g) |-> (g[p] * clip_norm) \div Max(norm, clip_norm)]

\* trainer.apply_gradients: the parameters after the optimizer's update.
apply_gradients(m) ==
    LET g == IF m.hp["max_grad_norm"] # None
             THEN clip_by_global_norm(gradients, m.hp["max_grad_norm"][1])
             ELSE gradients
    IN  [p \in 1..n_params |-> m.params[p] - g[p]]

\* ema.apply(self.params): each average moves towards the parameter's value as
\* it is when the operation runs.
ema_apply(m) ==
    [p \in 1..n_params |->
        m.polyak[p] - ((m.polyak[p] - m.params[p]) * (100 - m.hp["alpha"])) \div 100]

\* The operations _train brings in.
TrainOps == {"_opt_op", "ema_apply_op", "_train"}

\* The operations that must have run before op: ema_apply_op is created before
\* the control_dependencies block, so only the group _train, created inside it,
\* waits for _opt_op (and for its own input ema_apply_op).
control_inputs(op) ==
    CASE op = "_opt_op" -> {}
      [] op = "ema_apply_op" -> {}
      [] op = "_train" -> {"_opt_op", "ema_apply_op"}

\* _train_step up to sess.run: fetching run_ops = None raises.
train_step_call ==
    /\ lpc \in {"train_on", "train_off"}
    /\ IF model.run_ops = None
       THEN /\ lpc' = "TypeError"
            /\ UNCHANGED <<executed, kind, prev>>
       ELSE /\ lpc' = "sess_run"
            /\ executed' = {}
            /\ kind' = IF lpc = "train_on" THEN "on" ELSE "off"
            /\ prev' = [params |-> model.params, polyak |-> model.polyak]
    /\ calls' = IF lpc = "train_on"
                THEN [calls EXCEPT !.lr_steps = Append(@, steps)]
                ELSE calls
    /\ UNCHANGED <<model, total_timesteps, steps, buffer, samples_number, replays,
                   train_ret, events>>

\* sess.run executes one operation whose control inputs have run.
run_op ==
    /\ lpc = "sess_run"
    /\ \E op \in TrainOps \ executed :
          /\ control_inputs(op) \subseteq executed
          /\ executed' = executed \cup {op}
          /\ model' = CASE op = "_opt_op" -> [model EXCEPT !.params = apply_gradients(model)]
                        [] op = "ema_apply_op" -> [model EXCEPT !.polyak = ema_apply(model)]
                        [] op = "_train" -> model
    /\ UNCHANGED <<calls, lpc, total_timesteps, steps, buffer, samples_number, replays, kind,
                   prev, train_ret, events>>

\* _train_step returns names_ops and the fetched values without that of _train.
train_step_return ==
    /\ lpc = "sess_run"
    /\ "_train" \in executed
    /\ train_ret' = [names |-> model.names_ops,
                     values |-> Tail([k \in 1..Len(model.run_ops) |-> [of |-> model.run_ops[k]]]),
                     steps |-> steps]
    /\ events' = Append(events, kind)
    /\ lpc' = IF kind = "on" THEN "replay_check" ELSE "replay_loop"
    /\ replays' = IF kind = "off" THEN replays + 1 ELSE replays
    /\ calls' = IF kind = "on" THEN [calls EXCEPT !.on = @ + 1] ELSE calls
    /\ UNCHANGED <<model, total_timesteps, steps, buffer, samples_number, executed, kind, prev>>

----------------------------------------------------------------------------
\* The replay buffer (baselines.acer.buffer.Buffer), in steps.

\* Buffer(size): empty.
buffer_new(size) == [exists |-> TRUE, size |-> size, inserted |-> 0, content |-> <<>>]

no_buffer == [exists |-> FALSE, size |-> 0, inserted |-> 0, content |-> <<>>]

\* A put that never evicts.
buffer_put_no_evict(b) ==
    [b EXCEPT !.inserted = b.inserted + n_batch,
              !.content = b.content \o [k \in 1..n_batch |-> b.inserted + k]]

\* put: the segment's n_batch steps are inserted; the oldest steps beyond size leave.
buffer_put(b) ==
    LET all == b.content \o [k \in 1..n_batch |-> b.inserted + k]
    IN  [b EXCEPT !.inserted = b.inserted + n_batch,
                  !.content = SubSeq(all, Max(1, Len(all) - b.size + 1), Len(all))]

\* has_atleast(n): the steps inserted so far are at least n.
buffer_has_atleast(b, n) == b.inserted >= n

\* get: the segments (by the number of their last step) that are stored whole.
buffer_get(b) ==
    {l \in 1..b.inserted :
        /\ l % n_batch = 0
        /\ \A k \in (l - n_batch + 1)..l : \E x \in 1..Len(b.content) : b.content[x] = k}

----------------------------------------------------------------------------
\* ACER.learn

\* learn() entered with the on-policy step placed after the replay.
after_put_replay == "replay_check"

\* The statement after buffer.put: the on-policy _train_step.
after_put == "train_on"

\* The replay condition without the buffer's threshold.
replay_condition_ratio_only == model.hp["replay_ratio"] > 0

\* self.replay_ratio > 0 and buffer.has_atleast(self.replay_start)
replay_condition ==
    model.hp["replay_ratio"] > 0 /\ buffer_has_atleast(buffer, model.hp["replay_start"])

\* The hyperparameters a model is built with here.
LearnHypers ==
    {[h \in HyperNames |->
        CASE h = "n_steps" -> n_steps
          [] h = "nstack" -> nstack
          [] h = "alpha" -> 50
          [] h = "max_grad_norm" -> c.max_grad_norm
          [] h = "trust_region" -> c.trust_region
          [] h = "replay_ratio" -> c.replay_ratio
          [] h = "replay_start" -> c.replay_start
          [] h = "buffer_size" -> c.buffer_size
          [] OTHER -> Default(h)] :
     c \in [max_grad_norm : {None, Some(4)}, trust_region : BOOLEAN,
            replay_ratio : 0..1, replay_start : {0, n_batch + 1},
            buffer_size : {n_batch, n_batch + 1}]}

\* Nothing called yet: the calls of runner.run() and buffer.put, the on-policy
\* gradient steps done, and the step counters given to the learning-rate schedule
\* by the on-policy calls of _train_step.
NoCalls == [run |-> 0, put |-> 0, on |-> 0, lr_steps |-> <<>>]

\* ACER(policy, env, ...): the attributes are set, setup_model is still to run.
acer_new ==
    /\ \E hp \in LearnHypers : model = acer_init(hp, "MlpPolicy", TRUE)
    /\ lpc = "init"
    /\ total_timesteps = 0 /\ steps = 0
    /\ buffer = no_buffer
    /\ samples_number = 0 /\ replays = 0
    /\ executed = {} /\ kind = "none"
    /\ prev = [params |-> <<>>, polyak |-> <<>>]
    /\ train_ret = [names |-> None, values |-> <<>>, steps |-> 0]
    /\ events = <<>>
    /\ calls = NoCalls

\* The end of ACER.__init__ with _init_setup_model=True: self.setup_model().
acer_setup_model ==
    /\ lpc = "init"
    /\ model' = setup_model(model)
    /\ lpc' = "new"
    /\ UNCHANGED <<calls, total_timesteps, steps, buffer, samples_number, replays, executed, kind,
                   prev, train_ret, events>>

\* learn(total_timesteps), up to the loop.
learn_begin ==
    /\ lpc = "new"
    /\ model.st = "ready"
    /\ \E total \in 0..(MaxIters * n_batch) : total_timesteps' = total
    /\ buffer' = IF model.hp["replay_ratio"] > 0
                 THEN buffer_new(model.hp["buffer_size"])
                 ELSE no_buffer
    /\ steps' = 0
    /\ lpc' = "loop"
    /\ calls' = NoCalls
    /\ UNCHANGED <<model, samples_number, replays, executed, kind, prev, train_ret, events>>

\* The loop is entered for the value steps: runner.run().  The loop never looks
\* into the segment, so only the call is recorded here; run() itself is the
\* runner's run_begin, run_step and run_end.
learn_run ==
    /\ lpc = "loop"
    /\ steps < total_timesteps
    /\ events' = <<"run">>
    /\ lpc' = "put"
    /\ calls' = [calls EXCEPT !.run = @ + 1]
    /\ UNCHANGED <<model, total_timesteps, steps, buffer, samples_number, replays,
                   executed, kind, prev, train_ret>>

\* buffer.put, if there is a buffer.
learn_put ==
    /\ lpc = "put"
    /\ IF buffer.exists
       THEN buffer' = buffer_put(buffer) /\ events' = Append(events, "put")
       ELSE UNCHANGED <<buffer, events>>
    /\ lpc' = after_put
    /\ calls' = IF buffer.exists THEN [calls EXCEPT !.put = @ + 1] ELSE calls
    /\ UNCHANGED <<model, total_timesteps, steps, samples_number, replays, executed, kind,
                   prev, train_ret>>

\* The replay condition and the draw of samples_number.
learn_replay_check ==
    /\ lpc = "replay_check"
    /\ IF replay_condition
       THEN /\ \E k \in 0..MaxPoisson : samples_number' = k
            /\ replays' = 0
            /\ lpc' = "replay_loop"
            /\ steps' = steps
       ELSE /\ samples_number' = samples_number
            /\ replays' = replays
            /\ lpc' = "loop"
            /\ steps' = steps + n_batch
    /\ UNCHANGED <<calls, model, total_timesteps, buffer, executed, kind, prev, train_ret, events>>

\* One more off-policy iteration: buffer.get(), which needs a stored segment.
learn_replay_get ==
    /\ lpc = "replay_loop"
    /\ replays < samples_number
    /\ IF buffer_get(buffer) = {}
       THEN lpc' = "BufferError" /\ UNCHANGED events
       ELSE lpc' = "train_off" /\ events' = Append(events, "get")
    /\ UNCHANGED <<calls, model, total_timesteps, steps, buffer, samples_number, replays, executed,
                   kind, prev, train_ret>>

\* The off-policy iterations are over: the next value of steps.
learn_replay_end ==
    /\ lpc = "replay_loop"
    /\ replays = samples_number
    /\ steps' = steps + n_batch
    /\ lpc' = "loop"
    /\ UNCHANGED <<calls, model, total_timesteps, buffer, samples_number, replays, executed, kind,
                   prev, train_ret, events>>

\* The range is exhausted: return self.
learn_return ==
    /\ lpc = "loop"
    /\ steps >= total_timesteps
    /\ lpc' = "returned"
    /\ UNCHANGED <<calls, model, total_timesteps, steps, buffer, samples_number, replays, executed,
                   kind, prev, train_ret, events>>

----------------------------------------------------------------------------
\* ACER.save and ACER.load

\* The keys of the data save() writes.
SavedKeys ==
    {"gamma", "n_steps", "nstack", "q_coef", "ent_coef", "max_grad_norm", "learning_rate",
     "lr_schedule", "rprop_alpha", "rprop_epsilon", "replay_ratio", "replay_start",
     "verbose", "policy", "observation_space", "action_space", "n_envs"}

no_file == [data |-> <<>>, params |-> <<>>]

\* save(save_path): the data and the values of self.params.
save_file(m) == [data |-> [a \in SavedKeys |-> m.hp[a]], params |-> m.params]

\* zip(model.params, params) and the assignments: the parameters after the restore.
restore(m, stored) ==
    [k \in 1..Len(m.params) |-> IF k <= Len(stored) THEN stored[k] ELSE m.params[k]]

\* load(load_path, env) without keyword arguments: a model built with the defaults,
\* its attributes updated from the data, set up, its parameters assigned.
load_file(f) ==
    LET fresh == acer_init([h \in HyperNames |-> Default(h)], f.data["policy"], TRUE)
        updated == [fresh EXCEPT !.hp = [a \in DOMAIN fresh.hp |->
                                            IF a \in DOMAIN f.data THEN f.data[a]
                                            ELSE fresh.hp[a]]]
        built == setup_model(updated)
    IN  IF built.st = "ready"
        THEN [built EXCEPT !.params = restore(built, f.params)]
        ELSE built

\* A value of hyperparameter h other than its default.
Other(h) ==
    CASE h = "max_grad_norm" -> Some(11)
      [] h = "lr_schedule" -> "constant"
      [] h = "trust_region" -> FALSE
      [] OTHER -> Default(h) + 1

\* The hyperparameters of the models that are saved: up to two of them are not
\* the default.
SaveHypers ==
    {[h \in HyperNames |-> IF h \in {h1, h2} THEN Other(h) ELSE Default(h)] :
        h1 \in HyperNames, h2 \in HyperNames \cup {"none"}}

\* A set-up model, after some optimizer updates.
saveload_init ==
    /\ \E hp \in SaveHypers : \E t \in 0..MaxIters :
          LET m == setup_model(acer_init(hp, "MlpPolicy", TRUE))
          IN  model = [m EXCEPT !.params = [p \in 1..n_params |-> m.params[p] - t * p]]
    /\ lpc = "model"
    /\ total_timesteps = 0 /\ steps = 0
    /\ buffer = no_buffer
    /\ samples_number = 0 /\ replays = 0
    /\ executed = {} /\ kind = "none"
    /\ prev = [params |-> <<>>, polyak |-> <<>>]
    /\ train_ret = [names |-> None, values |-> <<>>, steps |-> 0]
    /\ events = <<>>
    /\ calls = NoCalls
    /\ saved = no_file
    /\ loaded = no_model

\* model.save(path)
save ==
    /\ lpc = "model"
    /\ saved' = save_file(model)
    /\ lpc' = "saved"
    /\ UNCHANGED <<calls, model, total_timesteps, steps, buffer, samples_number, replays, executed,
                   kind, prev, train_ret, events, loaded>>

\* ACER.load(path, env)
load ==
    /\ lpc = "saved"
    /\ loaded' = load_file(saved)
    /\ lpc' = "loaded"
    /\ UNCHANGED <<calls, model, total_timesteps, steps, buffer, samples_number, replays, executed,
                   kind, prev, train_ret, events, saved>>

----------------------------------------------------------------------------
\* Specifications

runner_idle ==
    /\ obs = [e \in Envs |-> <<>>] /\ dones = NoDones /\ env_t = 0 /\ rpc = "none"
    /\ enc_obs = <<>> /\ mb_obs = <<>> /\ mb_actions = <<>> /\ mb_mus = <<>>
    /\ mb_dones = <<>> /\ mb_rewards = <<>> /\ env_log = <<>> /\ ret = EmptyRet
    /\ hist = [resets |-> 0, last |-> None]

retrace_idle ==
    /\ q_n = 0 /\ rewards = <<>> /\ q_dones = <<>> /\ q_i = <<>> /\ values = <<>>
    /\ rho_i = <<>> /\ i = 0 /\ qret = <<>> /\ qrets = <<>> /\ qpc = "idle" /\ q_out = <<>>

acer_idle ==
    /\ model = no_model
    /\ lpc = "none"
    /\ total_timesteps = 0 /\ steps = 0
    /\ buffer = no_buffer
    /\ samples_number = 0 /\ replays = 0
    /\ executed = {} /\ kind = "none"
    /\ prev = [params |-> <<>>, polyak |-> <<>>]
    /\ train_ret = [names |-> None, values |-> <<>>, steps |-> 0]
    /\ events = <<>>
    /\ calls = NoCalls

persist_idle == saved = no_file /\ loaded = no_model

\* The runner: construction, then calls of run().
InitRunner == runner_init /\ retrace_idle /\ acer_idle /\ persist_idle

RunnerNext ==
    \/ run_begin /\ UNCHANGED <<retrace_vars, acer_vars, persist_vars>>
    \/ run_step /\ UNCHANGED <<retrace_vars, acer_vars, persist_vars>>
    \/ run_end /\ UNCHANGED <<retrace_vars, acer_vars, persist_vars>>

SpecRunner == InitRunner /\ [][RunnerNext]_vars

\* One call of q_retrace.
InitRetrace == retrace_init /\ runner_idle /\ acer_idle /\ persist_idle

RetraceNext ==
    \/ retrace_step /\ UNCHANGED <<runner_vars, acer_vars, persist_vars>>
    \/ retrace_end /\ UNCHANGED <<runner_vars, acer_vars, persist_vars>>

SpecRetrace == InitRetrace /\ [][RetraceNext]_vars

\* A model is built and learn() is called on it.
InitLearn == acer_new /\ runner_idle /\ retrace_idle /\ persist_idle

LearnNext ==
    \/ acer_setup_model /\ UNCHANGED <<runner_vars, retrace_vars, persist_vars>>
    \/ learn_begin /\ UNCHANGED <<runner_vars, retrace_vars, persist_vars>>
    \/ learn_run /\ UNCHANGED <<runner_vars, retrace_vars, persist_vars>>
    \/ learn_put /\ UNCHANGED <<runner_vars, retrace_vars, persist_vars>>
    \/ train_step_call /\ UNCHANGED <<runner_vars, retrace_vars, persist_vars>>
    \/ run_op /\ UNCHANGED <<runner_vars, retrace_vars, persist_vars>>
    \/ train_step_return /\ UNCHANGED <<runner_vars, retrace_vars, persist_vars>>
    \/ learn_replay_check /\ UNCHANGED <<runner_vars, retrace_vars, persist_vars>>
    \/ learn_replay_get /\ UNCHANGED <<runner_vars, retrace_vars, persist_vars>>
    \/ learn_replay_end /\ UNCHANGED <<runner_vars, retrace_vars, persist_vars>>
    \/ learn_return /\ UNCHANGED <<runner_vars, retrace_vars, persist_vars>>

SpecLearn == InitLearn /\ [][LearnNext]_vars

\* A model is saved and loaded.
InitSaveLoad == saveload_init /\ runner_idle /\ retrace_idle

SaveLoadNext ==
    \/ save /\ UNCHANGED <<runner_vars, retrace_vars>>
    \/ load /\ UNCHANGED <<runner_vars, retrace_vars>>

SpecSaveLoad == InitSaveLoad /\ [][SaveLoadNext]_vars

----------------------------------------------------------------------------
\* Claims about the runner (SpecRunner).

\* The stacks seen so far in this run(): before each step, and the current one.
Stacks == Append(mb_obs, obs)

\* The stack the claim expects after a step that returned frame raw and flag d.
StackAfter(before, raw, d) ==
    IF d
    THEN [j \in 1..StackLen |->
             IF j <= StackLen - num_channels THEN 0 ELSE raw[j - (StackLen - num_channels)]]
    ELSE SubSeq(before, num_channels + 1, StackLen) \o raw

\* C1: if the environment step at t returns done for e, the stack of e at t+1 is
\* the new raw frame in the newest num_channels channels and zeros in all older
\* ones; otherwise it is the previous stack shifted by one frame-group, the oldest
\* group discarded, with the new raw frame in the newest channels.
C1_StackAfterStep ==
    rpc = "loop" =>
        \A t \in 1..Len(env_log) : \A e \in Envs :
            Stacks[t + 1][e] = StackAfter(Stacks[t][e], env_log[t].obs[e], env_log[t].dones[e])

\* C1 witness: in one step an environment with non-zero older channels is done
\* and another one is not.
C1_Witness ==
    /\ rpc = "loop"
    /\ \E t \in 1..Len(env_log) : \E e1, e2 \in Envs :
          /\ env_log[t].dones[e1] /\ ~env_log[t].dones[e2]
          /\ \A j \in 1..StackLen : Stacks[t][e1][j] # 0 /\ Stacks[t][e2][j] # 0

\* C6: run() returns, per environment, n_steps + 1 stacked observations and masks
\* and n_steps actions, rewards, mus and dones, environment axis first.
C6_ReturnShapes ==
    rpc = "returned" =>
        /\ \A f \in {"obs", "actions", "rewards", "mus", "dones", "masks"} :
              DOMAIN ret[f] = Envs
        /\ \A e \in Envs :
              /\ Len(ret.obs[e]) = n_steps + 1
              /\ Len(ret.masks[e]) = n_steps + 1
              /\ Len(ret.actions[e]) = n_steps
              /\ Len(ret.rewards[e]) = n_steps
              /\ Len(ret.mus[e]) = n_steps
              /\ Len(ret.dones[e]) = n_steps
              /\ \A t \in 1..(n_steps + 1) :
                    Len(ret.obs[e][t]) = StackLen /\ ret.masks[e][t] \in BOOLEAN
              /\ \A t \in 1..n_steps :
                    /\ Len(ret.mus[e][t]) = n_act
                    /\ ret.actions[e][t] \in 0..(n_act - 1)
                    /\ ret.dones[e][t] \in BOOLEAN

\* C6 witness: a call of run() after the first one has returned (only a later call
\* can start with a done flag set).
C6_Witness == rpc = "returned" /\ \E e \in Envs : ret.masks[e][1]

\* C7 as stated: dones is masks truncated to its first n_steps entries.
C7_DonesAreFirstMasks ==
    rpc = "returned" => \A e \in Envs : ret.dones[e] = SubSeq(ret.masks[e], 1, n_steps)

\* C7 amended: dones is masks without its first entry (its last n_steps entries):
\* dones[e][t] = masks[e][t+1].
C7_DonesAreLastMasks ==
    rpc = "returned" =>
        \A e \in Envs :
            /\ Len(ret.dones[e]) = n_steps
            /\ \A t \in 1..n_steps : ret.dones[e][t] = ret.masks[e][t + 1]

\* C7 witness: a returned segment whose first and last n_steps masks differ.
C7_Witness ==
    /\ rpc = "returned"
    /\ \E e \in Envs : SubSeq(ret.masks[e], 1, n_steps) # Tail(ret.masks[e])

\* C13: in the output of run(), dones[e][t] is the done flag of the environment
\* step that produced rewards[e][t], which is masks[e][t+1]; masks[e][t] is the
\* flag given to the model's step as the mask when it chose actions[e][t].
C13_DonesOfRewardStep ==
    rpc = "returned" =>
        /\ Len(env_log) = n_steps
        /\ \A e \in Envs : \A t \in 1..n_steps :
              /\ ret.rewards[e][t] = env_log[t].rewards[e]
              /\ ret.dones[e][t] = env_log[t].dones[e]
              /\ ret.dones[e][t] = ret.masks[e][t + 1]
              /\ ret.actions[e][t] = env_log[t].actions[e]
              /\ ret.masks[e][t] = env_log[t].mask[e]

\* C13 witness: a returned segment that began with the done flag of the call
\* before it, and whose environment steps returned differing flags.
C13_Witness ==
    /\ rpc = "returned"
    /\ \E e \in Envs :
          /\ ret.masks[e][1] /\ ~ret.dones[e][1] /\ ret.dones[e][n_steps]
          /\ env_log[1].mask[e] /\ ~env_log[1].dones[e]


\* C14: the first stacked observation and the first mask of a call of run() are
\* the last ones of the call before it, for every environment, and env.reset()
\* is called once, at the runner's construction.
C14_ContiguousRollouts ==
    /\ rpc # "none" => hist.resets = 1
    /\ rpc = "returned" /\ hist.last # None =>
          \A e \in Envs :
              /\ ret.obs[e][1] = hist.last[1].obs[e]
              /\ ret.masks[e][1] = hist.last[1].masks[e]

\* C14 witness: a call has returned after a call that ended with one environment
\* done and another one not.
C14_Witness ==
    /\ rpc = "returned" /\ hist.last # None
    /\ \E e1, e2 \in Envs : hist.last[1].masks[e1] /\ ~hist.last[1].masks[e2]


\* The stacked observation of environment e at time t (0..n_steps) rebuilt from
\* the returned encoded frames k = t..t+nstack-1 (from 0): frame k was taken at
\* time u = k - (nstack - 1), and a frame taken before t is replaced by zeros iff
\* masks[e][s] is true for some s with max(u, 0) < s <= t.
Rebuild(e, t) ==
    [j \in 1..StackLen |->
        LET k == t + ((j - 1) \div num_channels)
            c == ((j - 1) % num_channels) + 1
            u == k - (nstack - 1)
        IN  IF u < t /\ \E s \in (Max(u, 0) + 1)..t : ret.masks[e][s + 1]
            THEN 0
            ELSE ret.enc_obs[e][k + 1][c]]

\* C15: the encoded observations run() returns hold nstack + n_steps single
\* frames per environment, the nstack groups of the stack at the start of the
\* call followed by the raw frame of each environment step, and every returned
\* stacked observation is rebuilt from them and the masks.
C15_EncodedObsRebuild ==
    rpc = "returned" =>
        \A e \in Envs :
            /\ Len(ret.enc_obs[e]) = nstack + n_steps
            /\ \A k \in 1..nstack :
                  ret.enc_obs[e][k] =
                      SubSeq(ret.obs[e][1], (k - 1) * num_channels + 1, k * num_channels)
            /\ \A t \in 1..n_steps : ret.enc_obs[e][nstack + t] = env_log[t].obs[e]
            /\ \A t \in 0..n_steps : ret.obs[e][t + 1] = Rebuild(e, t)

\* C15 witness: a returned segment in which one environment, its stack full of
\* frames at the start, was done at a step before the last one, and another
\* one, its stack full as well, was never done.
C15_Witness ==
    /\ rpc = "returned"
    /\ \E e1, e2 \in Envs :
          /\ \A j \in 1..StackLen : ret.obs[e1][1][j] # 0 /\ ret.obs[e2][1][j] # 0
          /\ ret.masks[e1][2] /\ ~ret.masks[e1][n_steps + 1]
          /\ \A s \in 1..(n_steps + 1) : ~ret.masks[e2][s]


----------------------------------------------------------------------------
\* Claims about q_retrace (SpecRetrace).

\* The arguments of environment e at step t (steps from 1).
RewardAt(e, t) == rewards[(e - 1) * q_n + t]
DoneAt(e, t) == q_dones[(e - 1) * q_n + t]
QAt(e, t) == q_i[(e - 1) * q_n + t]
RhoAt(e, t) == rho_i[(e - 1) * q_n + t]
ValueAt(e, t) == values[(e - 1) * (q_n + 1) + t]

\* The target of the claim: reward + gamma * (1 - done) * next, where next is the
\* bootstrap value at the last step and min(1, rho) * (target - q) + value, all of
\* the following step, before it.
RECURSIVE Target(_, _)
Target(e, t) ==
    RewardAt(e, t) + gamma * (1 - DoneAt(e, t)) *
        (IF t = q_n
         THEN ValueAt(e, q_n + 1)
         ELSE Min(1, RhoAt(e, t + 1)) * (Target(e, t + 1) - QAt(e, t + 1)) + ValueAt(e, t + 1))

\* C5: q_retrace returns target[i] for every environment and step, in forward
\* step order; so target[i] = reward[i] wherever done[i] = 1.
C5_RetraceTargets ==
    qpc = "done" =>
        /\ Len(q_out) = n_envs * q_n
        /\ \A e \in Envs : \A t \in 1..q_n :
              /\ q_out[(e - 1) * q_n + t] = Target(e, t)
              /\ DoneAt(e, t) = 1 => q_out[(e - 1) * q_n + t] = RewardAt(e, t)

\* C5 witness: a finished call on more than one step with a weight above 1 that
\* is used (a later step, not done before it) and a done step.
C5_Witness ==
    /\ qpc = "done" /\ q_n > 1
    /\ \E e \in Envs : \E t \in 2..q_n :
          /\ RhoAt(e, t) > 1 /\ DoneAt(e, t - 1) = 0 /\ DoneAt(e, t) = 1
          /\ q_out[(e - 1) * q_n + t] # QAt(e, t)

----------------------------------------------------------------------------
\* Claims about learn() and the training step (SpecLearn).

Count(seq, x) == Cardinality({k \in 1..Len(seq) : seq[k] = x})

\* An outer iteration has run to its end.
IterationDone == lpc = "loop" /\ events # <<>>

\* C2: in every outer iteration runner.run() comes first, then the put into the
\* buffer (when replay is enabled), then exactly one on-policy gradient step, and
\* only after it the off-policy steps.
C2_IterationOrder ==
    /\ events # <<>> => events[1] = "run"
    /\ Count(events, "run") <= 1 /\ Count(events, "put") <= 1 /\ Count(events, "on") <= 1
    /\ \A k \in 1..Len(events) :
          /\ events[k] = "put" => k = 2 /\ model.hp["replay_ratio"] > 0
          /\ events[k] = "on" => k = (IF model.hp["replay_ratio"] > 0 THEN 3 ELSE 2)
          /\ events[k] \in {"get", "off"} => \E j \in 1..(k - 1) : events[j] = "on"
    /\ lpc \in {"train_off", "replay_check", "replay_loop"} \/ IterationDone
          => Count(events, "on") = 1

\* C2 witness: an iteration with a put, the on-policy step and an off-policy step
\* has run to its end.
C2_Witness == IterationDone /\ events = <<"run", "put", "on", "get", "off">>

\* C3: buffer.get() is called only with replay enabled and at least replay_start
\* steps put into the buffer; an iteration whose condition fails performs no
\* off-policy step, and one whose condition holds performs the drawn number.
C3_ReplayGuard ==
    /\ Count(events, "get") > 0 =>
          /\ model.hp["replay_ratio"] > 0
          /\ buffer.exists
          /\ buffer.inserted >= model.hp["replay_start"]
    /\ samples_number >= 0
    /\ Count(events, "off") <= Count(events, "get")
    /\ IterationDone =>
          /\ Count(events, "off") = Count(events, "get")
          /\ Count(events, "off") =
                IF model.hp["replay_ratio"] > 0 /\ buffer.inserted >= model.hp["replay_start"]
                THEN samples_number
                ELSE 0

\* C3 witness: an off-policy step in an iteration after one that the threshold
\* kept from replaying.
C3_Witness ==
    /\ IterationDone
    /\ Count(events, "off") > 0
    /\ model.hp["replay_start"] > n_batch

\* C4: when a training step is over, the average is alpha * old average +
\* (1 - alpha) * the parameter's value after the optimizer's update.
C4_PolyakAfterOptimizer ==
    lpc = "sess_run" /\ "_train" \in executed =>
        /\ model.params = [p \in 1..n_params |-> apply_gradients([model EXCEPT !.params = prev.params])[p]]
        /\ \A p \in 1..n_params :
              model.polyak[p] =
                  prev.polyak[p]
                  - ((prev.polyak[p] - model.params[p]) * (100 - model.hp["alpha"])) \div 100

\* C8: with trust_region=False a training step runs and returns the eight base
\* metrics, paired with their names; the seven trust-region metrics are there
\* exactly under trust_region=True.
C8_TrainStepMetrics ==
    /\ ~model.hp["trust_region"] => lpc # "TypeError"
    /\ train_ret.names # None =>
          /\ train_ret.names = IF model.hp["trust_region"]
                               THEN base_names \o trust_region_names
                               ELSE base_names
          /\ Len(train_ret.values) = Len(train_ret.names)
          /\ \A k \in 1..Len(train_ret.names) : train_ret.values[k].of = train_ret.names[k]

\* C9: setup_model fails no assertion, whether max_grad_norm is configured or None.
C9_SetupWithoutAssertion == model.st # "AssertionError"

\* ceil(a / b), for a >= 0 and b > 0.
CeilDiv(a, b) == (a + b - 1) \div b

\* The outer iterations learn(total_timesteps) is to perform.
Iterations == CeilDiv(Max(total_timesteps, 0), n_batch)

\* C11: learn(total_timesteps) does not end by raising; it performs exactly
\* ceil(total_timesteps / n_batch) outer iterations, each with one call of
\* runner.run() and one on-policy gradient step, the step counter given to the
\* learning-rate schedule in iteration j being j * n_batch, and returns; with
\* total_timesteps <= 0 there is no rollout and no gradient step.
C11_LearnTerminates ==
    /\ lpc \notin {"TypeError", "BufferError"}
    /\ calls.run <= Iterations
    /\ calls.on <= calls.run /\ calls.run <= calls.on + 1
    /\ Len(calls.lr_steps) <= calls.run
    /\ \A j \in 1..Len(calls.lr_steps) : calls.lr_steps[j] = (j - 1) * n_batch
    /\ lpc = "returned" =>
          /\ calls.run = Iterations
          /\ calls.on = Iterations
          /\ Len(calls.lr_steps) = Iterations
          /\ model.st = "ready"
    /\ total_timesteps <= 0 => calls.run = 0 /\ calls.on = 0 /\ calls.lr_steps = <<>>


\* The steps the loop's calls of buffer.put have inserted so far (numbered from 1).
Inserted == calls.put * n_batch

\* C12: the buffer never holds more than size steps; once more than size steps
\* have been inserted it holds exactly the size most recently inserted ones, the
\* oldest first; has_atleast(n) is true exactly when the steps inserted so far are
\* at least n, and so stays true once it is.
C12_BufferCapacity ==
    buffer.exists =>
        /\ Len(buffer.content) <= buffer.size
        /\ Inserted > buffer.size =>
              buffer.content = [k \in 1..buffer.size |-> Inserted - buffer.size + k]
        /\ \A n \in 0..(MaxIters * n_batch + 1) :
              buffer_has_atleast(buffer, n) <=> Inserted >= n

\* C12 witness: more steps inserted than the buffer holds, the eviction cutting
\* into a segment, and the threshold crossed by a put after the first one.
C12_Witness ==
    /\ buffer.exists
    /\ Inserted > buffer.size
    /\ buffer.size % n_batch # 0
    /\ model.hp["replay_start"] > n_batch
    /\ buffer_has_atleast(buffer, model.hp["replay_start"])


----------------------------------------------------------------------------
\* Claims about save and load (SpecSaveLoad).

\* C10: after save and load, the loaded model has the hyperparameters of the saved
\* one, is built, and its i-th parameter holds the i-th stored value.
C10_SaveLoadRoundTrip ==
    lpc = "loaded" =>
        /\ \A h \in HyperNames : loaded.hp[h] = model.hp[h]
        /\ loaded.st = "ready"
        /\ \A k \in 1..n_params : loaded.params[k] = saved.params[k]

====
